---------------------------- MODULE Spec2Model ----------------------------
(***************************************************************************)
(* A model of research/videos/analyze_transcripts.py: the sentence         *)
(* classifier extract_key_insights, the fetch loop analyze_videos, the     *)
(* report builder generate_markdown_report and the main run that writes    *)
(* the two output files.                                                   *)
(*                                                                         *)
(* A Python str is modelled as a sequence of one-character strings, so     *)
(* that lower(), strip(), re.split and the `in` substring test are         *)
(* computed character by character.  Video ids and titles are never        *)
(* inspected by the program and stay TLA+ strings.                         *)
(***************************************************************************)
EXTENDS Integers, Sequences, FiniteSets, TLC

VARIABLES
    pc,               \* position of the __main__ block
    catalog,          \* VIDEO_IDS as the run sees it, in insertion order
    idx,              \* position of the for loop of analyze_videos in catalog
    all_insights,     \* the list analyze_videos collects and returns
    calls,            \* every ytt_api.fetch call made so far, with its outcome
    report,           \* the value generate_markdown_report returned
    md_file,          \* transcript-analysis.md: "absent", "partial" or "written"
    json_file,        \* insights-data.json:     "absent", "partial" or "written"
    error,            \* the exception that left __main__, or "none"
    epc,              \* position inside one call of extract_key_insights
    transcript_text,  \* its first argument
    video_title,      \* its second argument
    sentences,        \* its local `sentences`
    pos,              \* index of the for loop over sentences
    insights          \* its local `insights`

mainVars == <<pc, catalog, idx, all_insights, calls, report, md_file, json_file, error>>
extractVars == <<epc, transcript_text, video_title, sentences, pos, insights>>
vars == <<pc, catalog, idx, all_insights, calls, report, md_file, json_file, error, epc, transcript_text, video_title, sentences, pos, insights>>

-----------------------------------------------------------------------------
(* Bounds of the model *)

\* a text given to extract_key_insights is a concatenation of at most MaxPieces pieces
MaxPieces == 3
\* number of string-hash seeds, each giving set() another iteration order
NumHashSeeds == 3
\* number of catalog items whose fetch may also return the transcript with a repeated segment
NumRepeatVideos == 1

-----------------------------------------------------------------------------
(* Program constants *)

\* len(sentence.strip()) > 20
MinSentenceLength == 20
\* list(set(...))[:10]
MaxBullets == 10

VIDEO_IDS == <<
    [video_id |-> "OhMs-ipk8gE", title |-> "MediaPipe Pose Detection in JavaScript"],
    [video_id |-> "cc0H_sZrOiM", title |-> "Google MediaPipe Pose - JavaScript Tutorial"],
    [video_id |-> "FPD9YnxHJfE", title |-> "PoseNet Real-Time Pose Detection"],
    [video_id |-> "Iy4UQNZklyk", title |-> "Build AI Pose Estimation App"],
    [video_id |-> "9wy7P2GJvhE", title |-> "Pose Estimation Game Tutorial"],
    [video_id |-> "4c0pOJnt994", title |-> "Motion Capture Games with JavaScript"],
    [video_id |-> "pjAihwONJuI", title |-> "Gesture Recognition Gaming"],
    [video_id |-> "6CKjCLfL7FE", title |-> "Optimizing MediaPipe Performance"],
    [video_id |-> "T0kzis7cwJM", title |-> "Real-time Computer Vision Optimization"] >>

implementation_keywords == << <<"s", "e", "t", "u", "p">>, <<"i", "n", "i", "t", "i", "a", "l", "i", "z", "e">>, <<"c", "r", "e", "a", "t", "e">>, <<"i", "m", "p", "l", "e", "m", "e", "n", "t">>, <<"c", "o", "d", "e">>, <<"f", "u", "n", "c", "t", "i", "o", "n">>, <<"c", "l", "a", "s", "s">>, <<"m", "e", "t", "h", "o", "d">> >>
performance_keywords == << <<"o", "p", "t", "i", "m", "i", "z", "e">>, <<"p", "e", "r", "f", "o", "r", "m", "a", "n", "c", "e">>, <<"f", "p", "s">>, <<"f", "r", "a", "m", "e", " ", "r", "a", "t", "e">>, <<"l", "a", "t", "e", "n", "c", "y">>, <<"s", "p", "e", "e", "d">>, <<"f", "a", "s", "t">>, <<"e", "f", "f", "i", "c", "i", "e", "n", "t">> >>
game_keywords == << <<"g", "a", "m", "e">>, <<"s", "c", "o", "r", "e">>, <<"p", "l", "a", "y", "e", "r">>, <<"c", "o", "l", "l", "i", "s", "i", "o", "n">>, <<"p", "h", "y", "s", "i", "c", "s">>, <<"m", "o", "v", "e", "m", "e", "n", "t">>, <<"c", "o", "n", "t", "r", "o", "l">>, <<"i", "n", "p", "u", "t">> >>
issue_keywords == << <<"p", "r", "o", "b", "l", "e", "m">>, <<"i", "s", "s", "u", "e">>, <<"e", "r", "r", "o", "r">>, <<"f", "i", "x">>, <<"s", "o", "l", "u", "t", "i", "o", "n">>, <<"d", "e", "b", "u", "g">>, <<"t", "r", "o", "u", "b", "l", "e", "s", "h", "o", "o", "t">>, <<"c", "a", "r", "e", "f", "u", "l">> >>

\* the literals of the code-like test, each ending in a space
code_literals == << <<"c", "o", "n", "s", "t", " ">>, <<"l", "e", "t", " ">>, <<"f", "u", "n", "c", "t", "i", "o", "n", " ">>, <<"v", "a", "r", " ">> >>

-----------------------------------------------------------------------------
(* str methods and re.split, on sequences of characters *)

UpperToLower == [A |-> "a", B |-> "b", C |-> "c", D |-> "d", E |-> "e", F |-> "f", G |-> "g", H |-> "h", I |-> "i", J |-> "j", K |-> "k", L |-> "l", M |-> "m", N |-> "n", O |-> "o", P |-> "p", Q |-> "q", R |-> "r", S |-> "s", T |-> "t", U |-> "u", V |-> "v", W |-> "w", X |-> "x", Y |-> "y", Z |-> "z"]

\* str.lower()
lower(s) == [i \in 1..Len(s) |-> IF s[i] \in DOMAIN UpperToLower THEN UpperToLower[s[i]] ELSE s[i]]

\* the characters str.strip() removes
Whitespace == {" ", "\n", "\t", "\r"}

\* str.strip()
strip(s) ==
    LET keep == {i \in 1..Len(s) : s[i] \notin Whitespace}
    IN  IF keep = {} THEN <<>>
        ELSE SubSeq(s, CHOOSE i \in keep : \A j \in keep : i <= j,
                       CHOOSE i \in keep : \A j \in keep : i >= j)

\* the character class of re.split(r'[.!?]', ...)
SplitChars == {".", "!", "?"}

\* re_split with the empty pieces filtered out
RECURSIVE re_split_nonempty(_)
re_split_nonempty(text) ==
    LET hits == {i \in 1..Len(text) : text[i] \in SplitChars}
    IN  IF hits = {} THEN (IF text = <<>> THEN <<>> ELSE <<text>>)
        ELSE LET i == CHOOSE h \in hits : \A g \in hits : h <= g
             IN  (IF i = 1 THEN <<>> ELSE <<SubSeq(text, 1, i - 1)>>)
                     \o re_split_nonempty(SubSeq(text, i + 1, Len(text)))

\* re.split(r'[.!?]', text): the pieces between the matches, empty pieces kept
RECURSIVE re_split(_)
re_split(text) ==
    LET hits == {i \in 1..Len(text) : text[i] \in SplitChars}
    IN  IF hits = {} THEN <<text>>
        ELSE LET i == CHOOSE h \in hits : \A g \in hits : h <= g
             IN  <<SubSeq(text, 1, i - 1)>> \o re_split(SubSeq(text, i + 1, Len(text)))

\* keyword in s
Contains(keyword, s) ==
    \E i \in 1..(Len(s) - Len(keyword) + 1) :
        \A j \in 1..Len(keyword) : s[i + j - 1] = keyword[j]

\* any(keyword in s for keyword in keywords)
AnyKeyword(keywords, s) == \E n \in 1..Len(keywords) : Contains(keywords[n], s)

\* the code-like test made on the lower-cased sentence, as the keyword tests are
IsCodeLike_caseless(sentence) == AnyKeyword(code_literals, lower(sentence))

\* "const " in sentence or "let " in sentence or "function " in sentence or "var " in sentence
IsCodeLike(sentence) == AnyKeyword(code_literals, sentence)

-----------------------------------------------------------------------------
(* extract_key_insights *)

Categories == {"implementation_patterns", "performance_tips", "game_mechanics", "common_issues"}

KeywordsOf(category) ==
    CASE category = "implementation_patterns" -> implementation_keywords
      [] category = "performance_tips" -> performance_keywords
      [] category = "game_mechanics" -> game_keywords
      [] category = "common_issues" -> issue_keywords

\* the dict extract_key_insights starts from
NewInsights(title) ==
    [title |-> title, implementation_patterns |-> <<>>, performance_tips |-> <<>>,
     game_mechanics |-> <<>>, common_issues |-> <<>>, code_snippets |-> <<>>]

\* AppendIfMatch with the length test off by one (>= instead of >)
AppendIfMatch_ge(list, keywords, sentence) ==
    LET sentence_lower == strip(lower(sentence))
    IN  IF AnyKeyword(keywords, sentence_lower) /\ Len(strip(sentence)) >= MinSentenceLength
        THEN Append(list, strip(sentence))
        ELSE list

\* AppendIfMatch inserting at the front (list.insert(0, ...)) instead of appending
AppendIfMatch_front(list, keywords, sentence) ==
    LET sentence_lower == strip(lower(sentence))
    IN  IF AnyKeyword(keywords, sentence_lower) /\ Len(strip(sentence)) > MinSentenceLength
        THEN <<strip(sentence)>> \o list
        ELSE list

\* one of the four `if any(...): if len(sentence.strip()) > 20: append` blocks
AppendIfMatch(list, keywords, sentence) ==
    LET sentence_lower == strip(lower(sentence))
    IN  IF AnyKeyword(keywords, sentence_lower) /\ Len(strip(sentence)) > MinSentenceLength
        THEN Append(list, strip(sentence))
        ELSE list

\* the `if "const " in sentence or ...: append` block
AppendIfCode(list, sentence) ==
    IF IsCodeLike(sentence) THEN Append(list, strip(sentence)) ELSE list

\* the body of `for sentence in sentences`
ProcessSentence(ins, sentence) ==
    [ins EXCEPT
        !.implementation_patterns = AppendIfMatch(@, implementation_keywords, sentence),
        !.performance_tips = AppendIfMatch(@, performance_keywords, sentence),
        !.game_mechanics = AppendIfMatch(@, game_keywords, sentence),
        !.common_issues = AppendIfMatch(@, issue_keywords, sentence),
        !.code_snippets = AppendIfCode(@, sentence)]

RECURSIVE ProcessAll(_, _)
ProcessAll(ins, sents) ==
    IF sents = <<>> THEN ins
    ELSE ProcessAll(ProcessSentence(ins, Head(sents)), Tail(sents))

\* the whole call, as analyze_videos uses it
extract_key_insights(text, title) == ProcessAll(NewInsights(title), re_split(text))

-----------------------------------------------------------------------------
(* One call of extract_key_insights, statement by statement *)

\* the pieces the texts given to extract_key_insights are built from
Pieces == { <<"f", "i", "x", " ", "t", "h", "e", " ", "g", "a", "m", "e", " ", "c", "o", "d", "e", " ", "o", "k">>, <<"d", "e", "b", "u", "g", " ", "i", "n", "p", "u", "t", " ", "s", "e", "t", "u", "p", " ", "n", "o", "w">>, <<"o", "p", "t", "i", "m", "i", "z", "e", " ", "t", "h", "e", " ", "l", "e", "t", " ", "c", "o", "d", "e", "!">>, <<"X">>, <<" ">>, <<"\n">>, <<".">>, <<"?">>, <<"l", "e", "t", " ">>, <<"F", "P", "S">>, <<"C", "o", "n", "s", "t", " ">> }

RECURSIVE Concat(_)
Concat(seqs) == IF seqs = <<>> THEN <<>> ELSE Head(seqs) \o Concat(Tail(seqs))

Texts == {Concat(ps) : ps \in UNION {[1..n -> Pieces] : n \in 0..MaxPieces}}

Titles == {VIDEO_IDS[1].title, VIDEO_IDS[2].title}

NoReport ==
    [built |-> FALSE, analyzed |-> 0, implementation_patterns |-> <<>>, performance_tips |-> <<>>,
     game_mechanics |-> <<>>, common_issues |-> <<>>, video_summaries |-> <<>>, trailing |-> <<>>]

MainIdle ==
    /\ pc = "idle" /\ catalog = <<>> /\ idx = 0 /\ all_insights = <<>> /\ calls = <<>>
    /\ report = NoReport /\ md_file = "absent" /\ json_file = "absent" /\ error = "none"

InitExtract ==
    /\ MainIdle
    /\ epc = "start"
    /\ transcript_text \in Texts
    /\ video_title \in Titles
    /\ sentences = <<>>
    /\ pos = 0
    /\ insights = NewInsights("")

\* insights = {...}; sentences = re.split(r'[.!?]', transcript_text)
ExtractSplit ==
    /\ epc = "start"
    /\ insights' = NewInsights(video_title)
    /\ sentences' = re_split(transcript_text)
    /\ pos' = 1
    /\ epc' = "loop"
    /\ UNCHANGED <<transcript_text, video_title>>
    /\ UNCHANGED mainVars

\* one iteration of `for sentence in sentences`
ExtractSentence ==
    /\ epc = "loop"
    /\ pos <= Len(sentences)
    /\ insights' = ProcessSentence(insights, sentences[pos])
    /\ pos' = pos + 1
    /\ UNCHANGED <<epc, transcript_text, video_title, sentences>>
    /\ UNCHANGED mainVars

\* return insights
ExtractReturn ==
    /\ epc = "loop"
    /\ pos > Len(sentences)
    /\ epc' = "returned"
    /\ UNCHANGED <<transcript_text, video_title, sentences, pos, insights>>
    /\ UNCHANGED mainVars

NextExtract == ExtractSplit \/ ExtractSentence \/ ExtractReturn

SpecExtract == InitExtract /\ [][NextExtract]_vars

-----------------------------------------------------------------------------
(* The transcript service, as the run can meet it *)

IndexOf(video_id) == CHOOSE i \in 1..Len(VIDEO_IDS) : VIDEO_IDS[i].video_id = video_id

Digit(i) == <<"1", "2", "3", "4", "5", "6", "7", "8", "9">>[i]

\* a segment every transcript ends with
SharedSegment == <<"B", "e", " ", "c", "a", "r", "e", "f", "u", "l", " ", "w", "i", "t", "h", " ", "t", "h", "e", " ", "i", "n", "p", "u", "t", " ", "c", "o", "d", "e", ".">>

BaseTranscript(i) ==
    << <<"c", "l", "i", "p", " ">> \o <<Digit(i)>> \o <<":", " ", "d", "e", "b", "u", "g", " ", "f", "a", "s", "t", " ", "g", "a", "m", "e", " ", "c", "o", "d", "e", ".">>,
       <<"f", "i", "x", " ", "p", "l", "a", "y", "e", "r", " ", "s", "p", "e", "e", "d", " ", "i", "n", " ", "s", "e", "t", "u", "p", " ">> \o <<Digit(i)>> \o <<"!">>,
       SharedSegment >>

RepeatTranscript(i) ==
    << <<"c", "l", "i", "p", " ">> \o <<Digit(i)>> \o <<":", " ", "d", "e", "b", "u", "g", " ", "f", "a", "s", "t", " ", "g", "a", "m", "e", " ", "c", "o", "d", "e", ".">>, SharedSegment, SharedSegment >>

\* what ytt_api.fetch(video_id, languages=['en']) may return when it returns
Transcripts(video_id) ==
    LET i == IndexOf(video_id)
    IN  {BaseTranscript(i)} \cup (IF i <= NumRepeatVideos THEN {RepeatTranscript(i)} ELSE {})

\* TextFormatter.format_transcript: the segments' texts joined by newlines
RECURSIVE format_transcript(_)
format_transcript(transcript) ==
    IF transcript = <<>> THEN <<>>
    ELSE IF Len(transcript) = 1 THEN transcript[1]
    ELSE transcript[1] \o <<"\n">> \o format_transcript(Tail(transcript))

-----------------------------------------------------------------------------
(* analyze_videos *)

\* insights["video_id"] = video_id; insights["transcript_length"] = len(transcript)
WithVideo(ins, video_id, transcript) ==
    [title |-> ins.title,
     implementation_patterns |-> ins.implementation_patterns,
     performance_tips |-> ins.performance_tips,
     game_mechanics |-> ins.game_mechanics,
     common_issues |-> ins.common_issues,
     code_snippets |-> ins.code_snippets,
     video_id |-> video_id,
     transcript_length |-> Len(transcript)]

\* the try body for one item whose fetch returned `transcript`
RecordOf(item, transcript) ==
    WithVideo(extract_key_insights(format_transcript(transcript), item.title), item.video_id, transcript)

\* the prefixes of VIDEO_IDS a run may be given
Catalogs == {SubSeq(VIDEO_IDS, 1, n) : n \in 1..Len(VIDEO_IDS)}

ExtractIdle ==
    /\ epc = "idle" /\ transcript_text = <<>> /\ video_title = "" /\ sentences = <<>>
    /\ pos = 0 /\ insights = NewInsights("")

Init ==
    /\ pc = "analyze"
    /\ catalog \in Catalogs
    /\ idx = 1
    /\ all_insights = <<>>
    /\ calls = <<>>
    /\ report = NoReport
    /\ md_file = "absent"
    /\ json_file = "absent"
    /\ error = "none"
    /\ ExtractIdle

\* FetchOk with the insights dict shared across items: each record starts from the previous one's lists
FetchOk_shared ==
    /\ pc = "analyze"
    /\ idx <= Len(catalog)
    /\ \E transcript \in Transcripts(catalog[idx].video_id) :
        LET start == IF all_insights = <<>> THEN NewInsights(catalog[idx].title)
                     ELSE [NewInsights(catalog[idx].title) EXCEPT
                              !.implementation_patterns = all_insights[Len(all_insights)].implementation_patterns]
            ins == ProcessAll(start, re_split(format_transcript(transcript)))
        IN  /\ all_insights' = Append(all_insights, WithVideo(ins, catalog[idx].video_id, transcript))
            /\ calls' = Append(calls, [video_id |-> catalog[idx].video_id, ok |-> TRUE, transcript |-> transcript])
    /\ idx' = idx + 1
    /\ UNCHANGED <<pc, catalog, report, md_file, json_file, error>>
    /\ UNCHANGED extractVars

\* one loop iteration whose try body runs to its end
FetchOk ==
    /\ pc = "analyze"
    /\ idx <= Len(catalog)
    /\ \E transcript \in Transcripts(catalog[idx].video_id) :
        /\ all_insights' = Append(all_insights, RecordOf(catalog[idx], transcript))
        /\ calls' = Append(calls, [video_id |-> catalog[idx].video_id, ok |-> TRUE, transcript |-> transcript])
    /\ idx' = idx + 1
    /\ UNCHANGED <<pc, catalog, report, md_file, json_file, error>>
    /\ UNCHANGED extractVars

\* FetchFails with `break` in place of `continue`
FetchFails_break ==
    /\ pc = "analyze"
    /\ idx <= Len(catalog)
    /\ calls' = Append(calls, [video_id |-> catalog[idx].video_id, ok |-> FALSE, transcript |-> <<>>])
    /\ idx' = Len(catalog) + 1
    /\ UNCHANGED <<pc, catalog, all_insights, report, md_file, json_file, error>>
    /\ UNCHANGED extractVars

\* FetchFails with the record appended before the fetch, so a failed item leaves an empty record
FetchFails_partial ==
    /\ pc = "analyze"
    /\ idx <= Len(catalog)
    /\ calls' = Append(calls, [video_id |-> catalog[idx].video_id, ok |-> FALSE, transcript |-> <<>>])
    /\ all_insights' = Append(all_insights, WithVideo(NewInsights(catalog[idx].title), catalog[idx].video_id, <<>>))
    /\ idx' = idx + 1
    /\ UNCHANGED <<pc, catalog, report, md_file, json_file, error>>
    /\ UNCHANGED extractVars

\* one loop iteration whose fetch raises: except Exception ... continue
FetchFails ==
    /\ pc = "analyze"
    /\ idx <= Len(catalog)
    /\ calls' = Append(calls, [video_id |-> catalog[idx].video_id, ok |-> FALSE, transcript |-> <<>>])
    /\ idx' = idx + 1
    /\ UNCHANGED <<pc, catalog, all_insights, report, md_file, json_file, error>>
    /\ UNCHANGED extractVars

\* return all_insights
ReturnInsights ==
    /\ pc = "analyze"
    /\ idx > Len(catalog)
    /\ pc' = "report"
    /\ UNCHANGED <<catalog, idx, all_insights, calls, report, md_file, json_file, error>>
    /\ UNCHANGED extractVars

-----------------------------------------------------------------------------
(* generate_markdown_report *)

\* all_x = []; for video in insights_data: all_x.extend(video[category])
RECURSIVE Pool(_, _)
Pool(insights_data, category) ==
    IF insights_data = <<>> THEN <<>>
    ELSE Head(insights_data)[category] \o Pool(Tail(insights_data), category)

RECURSIVE Dedupe(_)
Dedupe(list) ==
    IF list = <<>> THEN <<>>
    ELSE <<Head(list)>> \o Dedupe(SelectSeq(Tail(list), LAMBDA x : x # Head(list)))

\* SetToList without set(): list(all_x)
SetToList_list(all_x, seed) ==
    LET n == Len(all_x)
    IN  [i \in 1..n |-> all_x[((i - 1 + seed) % n) + 1]]

\* list(set(all_x)): each element once, in the order the string hashes of this run give
SetToList(all_x, seed) ==
    LET u == Dedupe(all_x)
        n == Len(u)
    IN  [i \in 1..n |-> u[((i - 1 + seed) % n) + 1]]

\* UniqueTop without the [:10] slice
UniqueTop_all(all_x, seed) == SetToList(all_x, seed)

\* list(set(all_x))[:10]
UniqueTop(all_x, seed) ==
    LET l == SetToList(all_x, seed)
    IN  SubSeq(l, 1, IF Len(l) < MaxBullets THEN Len(l) ELSE MaxBullets)

\* the per-video block under "Video Summaries"
SummaryOf(video) ==
    [title |-> video.title, video_id |-> video.video_id, transcript_length |-> video.transcript_length,
     patterns |-> Len(video.implementation_patterns), tips |-> Len(video.performance_tips),
     mechanics |-> Len(video.game_mechanics)]

\* the two static sections the report ends with
StaticSections == <<"Key Takeaways for Our Project", "Recommended Implementation Order">>

\* the report, section by section; each bullet list holds the sentences of its "- ..." lines
generate_markdown_report(insights_data, seed) ==
    [built |-> TRUE,
     analyzed |-> Len(insights_data),
     implementation_patterns |-> UniqueTop(Pool(insights_data, "implementation_patterns"), seed),
     performance_tips |-> UniqueTop(Pool(insights_data, "performance_tips"), seed),
     game_mechanics |-> UniqueTop(Pool(insights_data, "game_mechanics"), seed),
     common_issues |-> UniqueTop(Pool(insights_data, "common_issues"), seed),
     video_summaries |-> [i \in 1..Len(insights_data) |-> SummaryOf(insights_data[i])],
     trailing |-> StaticSections]

-----------------------------------------------------------------------------
(* __main__ *)

HashSeeds == 0..(NumHashSeeds - 1)

\* report = generate_markdown_report(insights)
GenerateReport ==
    /\ pc = "report"
    /\ \E seed \in HashSeeds : report' = generate_markdown_report(all_insights, seed)
    /\ pc' = "write_md"
    /\ UNCHANGED <<catalog, idx, all_insights, calls, md_file, json_file, error>>
    /\ UNCHANGED extractVars

WriteOutcomes == {"ok", "open_fails", "write_fails"}

\* WriteMarkdown inside a try/except that swallows the error and goes on
WriteMarkdown_swallow ==
    /\ pc = "write_md"
    /\ \E outcome \in WriteOutcomes :
        /\ md_file' = CASE outcome = "ok" -> "written"
                        [] outcome = "open_fails" -> "absent"
                        [] outcome = "write_fails" -> "partial"
        /\ error' = IF outcome = "ok" THEN error ELSE "md_write"
        /\ pc' = "write_json"
    /\ UNCHANGED <<catalog, idx, all_insights, calls, report, json_file>>
    /\ UNCHANGED extractVars

\* with open(".../transcript-analysis.md", "w") as f: f.write(report)
WriteMarkdown ==
    /\ pc = "write_md"
    /\ \E outcome \in WriteOutcomes :
        /\ md_file' = CASE outcome = "ok" -> "written"
                        [] outcome = "open_fails" -> "absent"
                        [] outcome = "write_fails" -> "partial"
        /\ error' = IF outcome = "ok" THEN error ELSE "md_write"
        /\ pc' = IF outcome = "ok" THEN "write_json" ELSE "crashed"
    /\ UNCHANGED <<catalog, idx, all_insights, calls, report, json_file>>
    /\ UNCHANGED extractVars

\* with open(".../insights-data.json", "w") as f: json.dump(insights, f, indent=2); print(...)
WriteJson ==
    /\ pc = "write_json"
    /\ \E outcome \in WriteOutcomes :
        /\ json_file' = CASE outcome = "ok" -> "written"
                          [] outcome = "open_fails" -> "absent"
                          [] outcome = "write_fails" -> "partial"
        /\ error' = IF outcome = "ok" THEN error ELSE "json_write"
        /\ pc' = IF outcome = "ok" THEN "done" ELSE "crashed"
    /\ UNCHANGED <<catalog, idx, all_insights, calls, report, md_file>>
    /\ UNCHANGED extractVars

Next == FetchFails \/ FetchOk \/ ReturnInsights \/ GenerateReport \/ WriteMarkdown \/ WriteJson

Spec == Init /\ [][Next]_vars

-----------------------------------------------------------------------------
(* Properties of extract_key_insights, checked under SpecExtract *)

\* the sentence the loop of extract_key_insights is about to process
AtSentence == epc = "loop" /\ pos <= Len(sentences)

\* a keyword of the category is a substring of the lower-cased sentence, and
\* the trimmed sentence is longer than 20 characters
Qualifies(category, sentence) ==
    /\ \E n \in 1..Len(KeywordsOf(category)) : Contains(KeywordsOf(category)[n], lower(sentence))
    /\ Len(strip(sentence)) > 20

\* C1: processing a candidate sentence appends its trimmed form to a category's
\* sequence if and only if a keyword of that category is a substring of the
\* lower-cased sentence and the trimmed sentence is longer than 20 characters;
\* otherwise that sequence is left as it was.  Each of the four categories is
\* decided on its own.
C1_AppendIffKeywordAndLength ==
    [][ (AtSentence /\ pos' = pos + 1) =>
            \A c \in Categories :
                insights'[c] = IF Qualifies(c, sentences[pos])
                               THEN Append(insights[c], strip(sentences[pos]))
                               ELSE insights[c] ]_vars

\* a returned record in which one sentence sits in three categories and not in the fourth
C1_Witness ==
    /\ epc = "returned"
    /\ \E i \in 1..Len(insights.implementation_patterns) :
        LET s == insights.implementation_patterns[i]
        IN  /\ \E j \in 1..Len(insights.game_mechanics) : insights.game_mechanics[j] = s
            /\ \E j \in 1..Len(insights.common_issues) : insights.common_issues[j] = s
            /\ \A j \in 1..Len(insights.performance_tips) : insights.performance_tips[j] # s

\* the literal with its final space cut off is what the entry ends with
EndsWithTrimmedLiteral(entry) ==
    \E n \in 1..Len(code_literals) :
        LET word == SubSeq(code_literals[n], 1, Len(code_literals[n]) - 1)
        IN  /\ Len(entry) >= Len(word)
            /\ SubSeq(entry, Len(entry) - Len(word) + 1, Len(entry)) = word

\* C2 as stated: every entry of code_snippets contains one of the four
\* literals "const ", "let ", "function ", "var ".
C2_EntryContainsLiteral ==
    \A i \in 1..Len(insights.code_snippets) : AnyKeyword(code_literals, insights.code_snippets[i])

\* C2, amended: every entry of code_snippets is the trimmed form of a candidate
\* sentence that contains one of the four literals; the entry itself contains
\* one of the literals or ends with one of them less its final space.
C2_EntryIsTrimmedCodeSentence ==
    \A i \in 1..Len(insights.code_snippets) :
        LET entry == insights.code_snippets[i]
        IN  /\ \E k \in 1..Len(sentences) :
                /\ entry = strip(sentences[k])
                /\ AnyKeyword(code_literals, sentences[k])
            /\ (AnyKeyword(code_literals, entry) \/ EndsWithTrimmedLiteral(entry))

\* a returned record with an entry that holds no literal, and one that does
C2_Witness ==
    /\ epc = "returned"
    /\ \E i \in 1..Len(insights.code_snippets) : ~AnyKeyword(code_literals, insights.code_snippets[i])
    /\ \E i \in 1..Len(insights.code_snippets) : AnyKeyword(code_literals, insights.code_snippets[i])

\* the characters of the text that re.split removes, in order
Removed(text) == SelectSeq(text, LAMBDA ch : ch \in SplitChars)

\* the candidates put back together around the removed characters
RECURSIVE Rejoin(_, _)
Rejoin(sents, seps) ==
    IF Len(sents) <= 1 \/ seps = <<>> THEN Concat(sents)
    ELSE Head(sents) \o <<Head(seps)>> \o Rejoin(Tail(sents), Tail(seps))

\* C8: once the text is split, there is one candidate more than the text has
\* '.', '!' and '?' characters, no candidate holds such a character, the
\* candidates joined by the removed characters give back the text, and a
\* text with none of them is its own single candidate.
C8_SplitOnlyAtTerminators ==
    epc \in {"loop", "returned"} =>
        /\ Len(sentences) = Len(Removed(transcript_text)) + 1
        /\ \A k \in 1..Len(sentences) : Removed(sentences[k]) = <<>>
        /\ Rejoin(sentences, Removed(transcript_text)) = transcript_text
        /\ (Removed(transcript_text) = <<>> => sentences = <<transcript_text>>)

\* a text with two terminators, the second at its very end, split into three candidates
C8_Witness ==
    /\ epc = "returned"
    /\ Len(sentences) = 3
    /\ sentences[3] = <<>>
    /\ sentences[1] # <<>>

\* the sequence extract_key_insights must hold for a category: the trimmed
\* candidates that qualify, in text order, repeats kept
RECURSIVE TrimAll(_)
TrimAll(sents) == IF sents = <<>> THEN <<>> ELSE <<strip(Head(sents))>> \o TrimAll(Tail(sents))

\* C9: the returned record is a function of the text and the label alone: it
\* carries the label, each keyword sequence is the trimmed qualifying
\* candidates in the order of the text, and code_snippets the trimmed
\* code-like candidates in that order, a repeated sentence giving repeated
\* entries.
C9_RecordIsOrderedFilterOfText ==
    epc = "returned" =>
        /\ insights.title = video_title
        /\ \A c \in Categories :
            insights[c] = TrimAll(SelectSeq(re_split(transcript_text), LAMBDA s : Qualifies(c, s)))
        /\ insights.code_snippets =
                TrimAll(SelectSeq(re_split(transcript_text), LAMBDA s : AnyKeyword(code_literals, s)))

\* a returned record listing two different sentences, and one listing a sentence twice
C9_Witness ==
    /\ epc = "returned"
    /\ Len(insights.implementation_patterns) = 2
    /\ insights.implementation_patterns[1] # insights.implementation_patterns[2]
    /\ insights.performance_tips = <<insights.implementation_patterns[1]>>

-----------------------------------------------------------------------------
(* Properties of the run, checked under Spec and FairSpec *)

\* the distinct sentences of a category over all records
Distinct(category) ==
    LET all_x == Pool(all_insights, category)
    IN  {all_x[i] : i \in 1..Len(all_x)}

\* C3: each of the four aggregate sections of a built report holds at most 10 bullets.
C3_AtMostTenBullets ==
    report.built => \A c \in Categories : Len(report[c]) <= 10

\* a report built from more than 10 distinct matching sentences, cut to 10
C3_Witness ==
    /\ report.built
    /\ \E c \in Categories : Cardinality(Distinct(c)) > 10 /\ Len(report[c]) = 10

\* C4: no aggregate section of a built report holds the same sentence twice.
C4_NoRepeatedBullet ==
    report.built =>
        \A c \in Categories :
            \A i, j \in 1..Len(report[c]) : i # j => report[c][i] # report[c][j]

\* a report one of whose bullets stands twice in one record and again in another record
C4_Witness ==
    /\ report.built
    /\ Len(all_insights) >= 2
    /\ \E i \in 1..Len(report.common_issues) :
        LET s == report.common_issues[i]
            l1 == all_insights[1].common_issues
            l2 == all_insights[2].common_issues
        IN  /\ Cardinality({k \in 1..Len(l1) : l1[k] = s}) >= 2
            /\ \E k \in 1..Len(l2) : l2[k] = s

\* C5: the k-th fetch is for the k-th catalog item (each item once, none
\* again), an item whose fetch failed has no record in the collection, and
\* the loop is left only when every catalog item has been attempted.
C5_FailureSkipsItemOnly ==
    /\ Len(calls) <= Len(catalog)
    /\ \A k \in 1..Len(calls) : calls[k].video_id = catalog[k].video_id
    /\ \A k \in 1..Len(calls) :
        ~calls[k].ok => \A r \in 1..Len(all_insights) : all_insights[r].video_id # calls[k].video_id
    /\ (pc # "analyze" => Len(calls) = Len(catalog))

\* a finished loop whose first fetch failed and whose later fetches include a success
C5_Witness ==
    /\ pc = "report"
    /\ Len(calls) >= 3
    /\ ~calls[1].ok
    /\ \E k \in 2..Len(calls) : calls[k].ok
    /\ \E k \in 2..Len(calls) : ~calls[k].ok

\* C6: with a catalog of one identifier whose fetch failed, the collection is
\* empty, and the report, once built, counts 0 records, has no entry under
\* "Video Summaries" and ends with the two static sections.
C6_SingleFailureGivesEmptyReport ==
    (Len(catalog) = 1 /\ Len(calls) = 1 /\ ~calls[1].ok) =>
        /\ Len(all_insights) = 0
        /\ (pc \in {"write_md", "write_json", "done", "crashed"} => report.built)
        /\ (report.built =>
                /\ report.analyzed = 0
                /\ Len(report.video_summaries) = 0
                /\ report.trailing = <<"Key Takeaways for Our Project", "Recommended Implementation Order">>)

\* the report of a run over one identifier whose fetch failed
C6_Witness ==
    /\ Len(catalog) = 1
    /\ Len(calls) = 1
    /\ ~calls[1].ok
    /\ report.built

\* the calls that returned a transcript, in call order
OkCalls == SelectSeq(calls, LAMBDA c : c.ok)

\* the catalog entry a call was made for
ItemOf(call) == VIDEO_IDS[IndexOf(call.video_id)]

\* C7: the fetches follow the catalog order, and the collection holds, in
\* that order, one record per fetch that returned, each computed from that
\* item's identifier, label and transcript and from nothing else.
C7_RecordsAreIndependent ==
    pc \in {"analyze", "report"} =>
        /\ \A k \in 1..Len(calls) : calls[k].video_id = catalog[k].video_id
        /\ Len(all_insights) = Len(OkCalls)
        /\ \A r \in 1..Len(all_insights) :
            all_insights[r] = RecordOf(ItemOf(OkCalls[r]), OkCalls[r].transcript)

\* a returned collection of two or more records that skips a failed item between them
C7_Witness ==
    /\ pc = "report"
    /\ Len(all_insights) >= 2
    /\ \E k \in 2..(Len(calls) - 1) : ~calls[k].ok /\ calls[k - 1].ok /\ calls[k + 1].ok

\* the statements of the run still to be executed, at most
StepsLeft ==
    CASE pc = "analyze" -> (Len(catalog) - idx + 1) + 4
      [] pc = "report" -> 3
      [] pc = "write_md" -> 2
      [] pc = "write_json" -> 1
      [] OTHER -> 0

\* C10: no file exists before every catalog item has been attempted and the
\* report built; the JSON file is touched only after the markdown file is
\* written; a failed markdown write ends the run with the JSON file
\* untouched; and the run cannot stop short: every step brings it nearer its
\* end, it has a next step wherever it has not ended, and it ends either
\* with both files written or with the error of a failed write.
C10_WriteOrder ==
    /\ []((md_file # "absent" \/ json_file # "absent" \/ error # "none") =>
              (Len(calls) = Len(catalog) /\ report.built))
    /\ []((json_file # "absent" \/ error = "json_write") => md_file = "written")
    /\ [](error = "md_write" => (pc = "crashed" /\ json_file = "absent"))
    /\ [](pc = "done" => (md_file = "written" /\ json_file = "written" /\ error = "none"))
    /\ [](pc = "crashed" => error # "none")
    /\ [](pc \notin {"done", "crashed"} => ENABLED Next)
    /\ [][StepsLeft' < StepsLeft /\ StepsLeft' >= 0]_vars

\* a finished run with both files written although some fetches failed
C10_Witness ==
    /\ pc = "done"
    /\ md_file = "written"
    /\ json_file = "written"
    /\ \E k \in 1..Len(calls) : ~calls[k].ok
    /\ \E k \in 1..Len(calls) : calls[k].ok

=============================================================================
